---------------------------- MODULE Spec2Model ----------------------------
(***************************************************************************)
(* ReadersWriters (concurrency/reader-writer): a writer-preference         *)
(* readers-writers lock built from one threading.Lock and two              *)
(* threading.Condition objects that share it.                              *)
(*                                                                         *)
(* Reader threads loop over read_resource() (start_read, the simulated     *)
(* read, end_read when the ReadLock guard is dropped at return); writer    *)
(* threads loop over write_resource(value) (start_write, the assignment of *)
(* shared_resource, end_write when the WriteLock guard is dropped).  A     *)
(* thread may leave its loop whenever it is between two calls.             *)
(*                                                                         *)
(* The mutex is explicit: a `with self._mutex:` block is entered by one    *)
(* action that takes the mutex and left by one that frees it, and a        *)
(* Condition.wait() frees it, parks the thread in the condition's wait set *)
(* and takes it again after a notify has removed the thread from the set.  *)
(* notify() removes one parked thread (which one is not specified by       *)
(* threading.Condition, so any), notify_all() removes all of them; a       *)
(* notify on an empty wait set does nothing, and wait() returns only after *)
(* a notify.                                                               *)
(*                                                                         *)
(* The ReadLock / WriteLock guards release in __del__.  The guard's only   *)
(* reference is the local `_` of read_resource / write_resource, so under  *)
(* CPython's reference counting __del__ runs when the call returns, in the *)
(* calling thread: end_read / end_write are the last steps of the call.    *)
(***************************************************************************)
EXTENDS Integers, FiniteSets

\* ------------------------------------------------------------- bounds
NumReaders == 2
NumWriters == 2
MaxStray == 1           \* unmatched end_read calls the misuse scenario allows
MaxRecords == 2         \* records the database scenario lets the list grow to

Readers == 1..NumReaders
Writers == (NumReaders + 1)..(NumReaders + NumWriters)
Threads == Readers \cup Writers
Values == {42, 0 - 1}                   \* arguments given to write_resource
Free == 0                               \* the mutex has no holder
NoWatch == <<>>                         \* the observer follows no pair

VARIABLES
    mutex,              \* _mutex: Free or the thread that holds it
    read_cv,            \* _read_cv: threads parked in _read_cv.wait()
    write_cv,           \* _write_cv: threads parked in _write_cv.wait()
    active_readers,     \* _active_readers
    waiting_readers,    \* _waiting_readers
    is_writing,         \* _is_writing
    waiting_writers,    \* _waiting_writers
    shared_resource,    \* _shared_resource
    pc,                 \* where each thread is
    value,              \* write_resource's parameter, per writer, once used
    watch,              \* observer of one (reader, writer) pair, see Latch
    records,            \* SharedDatabase.records: the length of the list
    db                  \* the SharedDatabase method each thread is inside

vars == <<mutex, read_cv, write_cv, active_readers, waiting_readers, is_writing,
          waiting_writers, shared_resource, pc, value, watch, records, db>>

lockState == <<active_readers, waiting_readers, is_writing, waiting_writers>>
history == <<watch>>
database == <<records, db>>

\* faulty variant: the instance is born with is_writing set
Init_Writing ==
    /\ mutex = Free
    /\ read_cv = {}
    /\ write_cv = {}
    /\ active_readers = 0
    /\ waiting_readers = 0
    /\ is_writing = TRUE
    /\ waiting_writers = 0
    /\ shared_resource = 0
    /\ pc = [t \in Threads |-> "idle"]
    /\ value = [w \in Writers |-> 0]
    /\ watch = NoWatch
    /\ records = 0
    /\ db = [t \in Threads |-> "none"]

\* ReadersWriters.__init__, and no thread started yet
Init ==
    /\ mutex = Free
    /\ read_cv = {}
    /\ write_cv = {}
    /\ active_readers = 0
    /\ waiting_readers = 0
    /\ is_writing = FALSE
    /\ waiting_writers = 0
    /\ shared_resource = 0
    /\ pc = [t \in Threads |-> "idle"]
    /\ value = [w \in Writers |-> 0]
    /\ watch = NoWatch
    /\ records = 0
    /\ db = [t \in Threads |-> "none"]

\* ------------------------------------------------------------ observer
\* History for the order of returns.  When reader r enters start_read while
\* writer w is waiting inside start_write, the observer may latch the pair:
\* watch = <<r, w>>.  The pair is dropped when w returns from start_write.
\* One pair is followed at a time, and any pair of any call can be the one.

\* thread t is inside start_write and counted in waiting_writers
WaitingToWrite(t) == pc[t] \in {"sw_test", "sw_wait"}

\* reader r enters start_read
Latch(r) ==
    IF watch = NoWatch
      THEN {NoWatch} \cup {<<r, w>> : w \in {x \in Writers : WaitingToWrite(x)}}
      ELSE {watch}

\* writer w returns from start_write
Serve(w) ==
    IF watch # NoWatch /\ watch[2] = w THEN NoWatch ELSE watch

\* ------------------------------------------------ threading.Condition

\* faulty variant: the notification is lost
Notify_Lost(waiters) == {waiters}

\* Condition.notify(): the wait sets it can leave behind
Notify(waiters) ==
    IF waiters = {} THEN {waiters} ELSE {waiters \ {t} : t \in waiters}

\* faulty variant: notify_all wakes one thread only
NotifyAll_One(waiters) ==
    IF waiters = {} THEN {} ELSE waiters \ {CHOOSE t \in waiters : TRUE}

\* Condition.notify_all()
NotifyAll(waiters) == {}

\* ---------------------------------------------------------- start_read

\* faulty variant: the reader never waits
ReadMustWait_Never == FALSE

\* faulty variant: the reader does not look at waiting writers
ReadMustWait_NoPreference == is_writing

\* faulty variant: the reader does not look at the active writer
ReadMustWait_OnlyQueued == waiting_writers > 0

\* faulty variant: the reader also waits for other readers
ReadMustWait_Exclusive == is_writing \/ waiting_writers > 0 \/ active_readers > 0

\* the predicate of start_read's wait loop
ReadMustWait == is_writing \/ waiting_writers > 0

\* faulty variant: the arriving reader is not counted in waiting_readers
StartReadEnter_NoCount(t) ==
    /\ pc[t] = "idle"
    /\ mutex = Free
    /\ mutex' = t
    /\ pc' = [pc EXCEPT ![t] = "sr_test"]
    /\ watch' \in Latch(t)
    /\ UNCHANGED <<read_cv, write_cv, lockState, shared_resource, value, database>>

\* read_resource: ReadLock(self) calls start_read.
\* with self._mutex: self._waiting_readers += 1
StartReadEnter(t) ==
    /\ pc[t] = "idle"
    /\ mutex = Free
    /\ mutex' = t
    /\ waiting_readers' = waiting_readers + 1
    /\ pc' = [pc EXCEPT ![t] = "sr_test"]
    /\ watch' \in Latch(t)
    /\ UNCHANGED <<read_cv, write_cv, active_readers, is_writing,
                   waiting_writers, shared_resource, value, database>>

\* while ...: self._read_cv.wait()  -- park and free the mutex
StartReadWait(t) ==
    /\ pc[t] = "sr_test"
    /\ mutex = t
    /\ ReadMustWait
    /\ read_cv' = read_cv \cup {t}
    /\ mutex' = Free
    /\ pc' = [pc EXCEPT ![t] = "sr_wait"]
    /\ UNCHANGED <<write_cv, lockState, shared_resource, value, history, database>>

\* faulty variant: `if` for `while` -- the woken reader does not test again
StartReadWake_NoRecheck(t) ==
    /\ pc[t] = "sr_wait"
    /\ t \notin read_cv
    /\ mutex = Free
    /\ waiting_readers' = waiting_readers - 1
    /\ active_readers' = active_readers + 1
    /\ pc' = [pc EXCEPT ![t] = "reading"]
    /\ UNCHANGED <<mutex, read_cv, write_cv, is_writing, waiting_writers,
                   shared_resource, value, history, database>>

\* wait() returns: notified, the mutex taken again, back to the loop test
StartReadWake(t) ==
    /\ pc[t] = "sr_wait"
    /\ t \notin read_cv
    /\ mutex = Free
    /\ mutex' = t
    /\ pc' = [pc EXCEPT ![t] = "sr_test"]
    /\ UNCHANGED <<read_cv, write_cv, lockState, shared_resource, value, history, database>>

\* faulty variant: waiting_readers is not decremented
StartReadPass_KeepsWaiting(t) ==
    /\ pc[t] = "sr_test"
    /\ mutex = t
    /\ ~ReadMustWait
    /\ active_readers' = active_readers + 1
    /\ mutex' = Free
    /\ pc' = [pc EXCEPT ![t] = "reading"]
    /\ UNCHANGED <<read_cv, write_cv, waiting_readers, is_writing, waiting_writers,
                   shared_resource, value, history, database>>

\* loop left: waiting_readers -= 1; active_readers += 1; the with block ends
StartReadPass(t) ==
    /\ pc[t] = "sr_test"
    /\ mutex = t
    /\ ~ReadMustWait
    /\ waiting_readers' = waiting_readers - 1
    /\ active_readers' = active_readers + 1
    /\ mutex' = Free
    /\ pc' = [pc EXCEPT ![t] = "reading"]
    /\ UNCHANGED <<read_cv, write_cv, is_writing, waiting_writers,
                   shared_resource, value, history, database>>

\* --------------------------------------------------- read_resource body

\* logger.log(... f"... reading resource: {self._shared_resource}"): the
\* payload is read (no mutex taken) and nothing is written
ReadLog(t) ==
    /\ pc[t] = "reading"
    /\ pc' = [pc EXCEPT ![t] = "logged"]
    /\ UNCHANGED <<mutex, read_cv, write_cv, lockState, shared_resource,
                   value, history, database>>

\* ------------------------------------------------------------ end_read

\* faulty variant: end_read does not count the reader out
EndReadEnter_KeepsCount(t) ==
    /\ pc[t] = "logged"
    /\ mutex = Free
    /\ mutex' = t
    /\ pc' = [pc EXCEPT ![t] = "er_test"]
    /\ UNCHANGED <<read_cv, write_cv, lockState, shared_resource, value, history, database>>

\* read_resource returns (after the log and the sleep) and drops its local
\* `_`, the only reference to the ReadLock: __del__ calls end_read.
\* with self._mutex: self._active_readers -= 1
EndReadEnter(t) ==
    /\ pc[t] = "logged"
    /\ mutex = Free
    /\ mutex' = t
    /\ active_readers' = active_readers - 1
    /\ pc' = [pc EXCEPT ![t] = "er_test"]
    /\ UNCHANGED <<read_cv, write_cv, waiting_readers, is_writing,
                   waiting_writers, shared_resource, value, history,
                   database>>

\* faulty variant: end_read never notifies
EndReadExit_NoNotify(t) ==
    /\ pc[t] = "er_test"
    /\ mutex = t
    /\ mutex' = Free
    /\ pc' = [pc EXCEPT ![t] = "idle"]
    /\ UNCHANGED <<read_cv, write_cv, lockState, shared_resource, value, history,
                   database>>

\* faulty variant: end_read notifies a writer whatever active_readers is
EndReadExit_AlwaysNotifies(t) ==
    /\ pc[t] = "er_test"
    /\ mutex = t
    /\ write_cv' \in Notify(write_cv)
    /\ mutex' = Free
    /\ pc' = [pc EXCEPT ![t] = "idle"]
    /\ UNCHANGED <<read_cv, lockState, shared_resource, value, history, database>>

\* if self._active_readers == 0: self._write_cv.notify(); the with block ends
EndReadExit(t) ==
    /\ pc[t] = "er_test"
    /\ mutex = t
    /\ IF active_readers = 0
         THEN write_cv' \in Notify(write_cv)
         ELSE write_cv' = write_cv
    /\ mutex' = Free
    /\ pc' = [pc EXCEPT ![t] = "idle"]
    /\ UNCHANGED <<read_cv, lockState, shared_resource, value, history, database>>

\* --------------------------------------------------------- start_write

\* faulty variant: the writer does not look at active readers
WriteMustWait_IgnoresReaders == is_writing

\* faulty variant: the writer does not look at the active writer
WriteMustWait_IgnoresWriter == active_readers > 0

\* the predicate of start_write's wait loop
WriteMustWait == is_writing \/ active_readers > 0

\* faulty variant: the arriving writer is not counted in waiting_writers
StartWriteEnter_NoCount(t) ==
    /\ pc[t] = "idle"
    /\ mutex = Free
    /\ mutex' = t
    /\ pc' = [pc EXCEPT ![t] = "sw_test"]
    /\ UNCHANGED <<read_cv, write_cv, lockState, shared_resource, value, history,
                   database>>

\* write_resource: WriteLock(self) calls start_write.
\* with self._mutex: self._waiting_writers += 1
StartWriteEnter(t) ==
    /\ pc[t] = "idle"
    /\ mutex = Free
    /\ mutex' = t
    /\ waiting_writers' = waiting_writers + 1
    /\ pc' = [pc EXCEPT ![t] = "sw_test"]
    /\ UNCHANGED <<read_cv, write_cv, active_readers, waiting_readers,
                   is_writing, shared_resource, value, history, database>>

\* faulty variant: the writer parks without giving up the mutex
StartWriteWait_KeepsMutex(t) ==
    /\ pc[t] = "sw_test"
    /\ mutex = t
    /\ WriteMustWait
    /\ write_cv' = write_cv \cup {t}
    /\ pc' = [pc EXCEPT ![t] = "sw_wait"]
    /\ UNCHANGED <<mutex, read_cv, lockState, shared_resource, value, history,
                   database>>

\* while ...: self._write_cv.wait()
StartWriteWait(t) ==
    /\ pc[t] = "sw_test"
    /\ mutex = t
    /\ WriteMustWait
    /\ write_cv' = write_cv \cup {t}
    /\ mutex' = Free
    /\ pc' = [pc EXCEPT ![t] = "sw_wait"]
    /\ UNCHANGED <<read_cv, lockState, shared_resource, value, history, database>>

\* wait() returns
StartWriteWake(t) ==
    /\ pc[t] = "sw_wait"
    /\ t \notin write_cv
    /\ mutex = Free
    /\ mutex' = t
    /\ pc' = [pc EXCEPT ![t] = "sw_test"]
    /\ UNCHANGED <<read_cv, write_cv, lockState, shared_resource, value, history, database>>

\* faulty variant: waiting_writers is not decremented
StartWritePass_KeepsWaiting(t) ==
    /\ pc[t] = "sw_test"
    /\ mutex = t
    /\ ~WriteMustWait
    /\ is_writing' = TRUE
    /\ mutex' = Free
    /\ pc' = [pc EXCEPT ![t] = "writing"]
    /\ watch' = Serve(t)
    /\ UNCHANGED <<read_cv, write_cv, active_readers, waiting_readers,
                   waiting_writers, shared_resource, value, database>>

\* faulty variant: is_writing is not set
StartWritePass_NoFlag(t) ==
    /\ pc[t] = "sw_test"
    /\ mutex = t
    /\ ~WriteMustWait
    /\ waiting_writers' = waiting_writers - 1
    /\ mutex' = Free
    /\ pc' = [pc EXCEPT ![t] = "writing"]
    /\ watch' = Serve(t)
    /\ UNCHANGED <<read_cv, write_cv, active_readers, waiting_readers,
                   is_writing, shared_resource, value, database>>

\* loop left: waiting_writers -= 1; is_writing = True; the with block ends
StartWritePass(t) ==
    /\ pc[t] = "sw_test"
    /\ mutex = t
    /\ ~WriteMustWait
    /\ waiting_writers' = waiting_writers - 1
    /\ is_writing' = TRUE
    /\ mutex' = Free
    /\ pc' = [pc EXCEPT ![t] = "writing"]
    /\ watch' = Serve(t)
    /\ UNCHANGED <<read_cv, write_cv, active_readers, waiting_readers,
                   shared_resource, value, database>>

\* -------------------------------------------------- write_resource body

\* faulty variant: the assignment is lost
WriteAssign_Lost(t) ==
    /\ pc[t] = "writing"
    /\ \E v \in Values : value' = [value EXCEPT ![t] = v]
    /\ pc' = [pc EXCEPT ![t] = "written"]
    /\ UNCHANGED <<mutex, read_cv, write_cv, lockState, shared_resource, history, database>>

\* self._shared_resource = value  (no mutex taken).  The argument is drawn
\* here, where the call first uses it: nothing before this line reads it.
WriteAssign(t) ==
    /\ pc[t] = "writing"
    /\ \E v \in Values :
          /\ value' = [value EXCEPT ![t] = v]
          /\ shared_resource' = v
    /\ pc' = [pc EXCEPT ![t] = "written"]
    /\ UNCHANGED <<mutex, read_cv, write_cv, lockState, history, database>>

\* ----------------------------------------------------------- end_write

\* faulty variant: end_write clears is_writing before it takes the mutex
EndWriteEnter_Unlocked(t) ==
    /\ pc[t] = "written"
    /\ is_writing' = FALSE
    /\ pc' = [pc EXCEPT ![t] = "ew_test"]
    /\ UNCHANGED <<mutex, read_cv, write_cv, active_readers, waiting_readers,
                   waiting_writers, shared_resource, value, history,
                   database>>

\* write_resource returns (after the log and the sleep) and drops its local
\* `_`, the only reference to the WriteLock: __del__ calls end_write.
\* with self._mutex: self._is_writing = False
EndWriteEnter(t) ==
    /\ pc[t] = "written"
    /\ mutex = Free
    /\ mutex' = t
    /\ is_writing' = FALSE
    /\ pc' = [pc EXCEPT ![t] = "ew_test"]
    /\ UNCHANGED <<read_cv, write_cv, active_readers, waiting_readers,
                   waiting_writers, shared_resource, value, history,
                   database>>

\* faulty variant: end_write wakes the readers as well as a writer
EndWriteExit_WakesBoth(t) ==
    /\ pc[t] = "ew_test"
    /\ mutex = t
    /\ write_cv' \in Notify(write_cv)
    /\ read_cv' = NotifyAll(read_cv)
    /\ mutex' = Free
    /\ pc' = [pc EXCEPT ![t] = "idle"]
    /\ value' = [value EXCEPT ![t] = 0]
    /\ UNCHANGED <<lockState, shared_resource, history, database>>

\* faulty variant: end_write never hands over to a waiting writer
EndWriteExit_NoHandOver(t) ==
    /\ pc[t] = "ew_test"
    /\ mutex = t
    /\ read_cv' = NotifyAll(read_cv)
    /\ write_cv' = write_cv
    /\ mutex' = Free
    /\ pc' = [pc EXCEPT ![t] = "idle"]
    /\ value' = [value EXCEPT ![t] = 0]
    /\ UNCHANGED <<lockState, shared_resource, history, database>>

\* faulty variant: end_write resets waiting_readers when it wakes the readers
EndWriteExit_ResetsWaitingReaders(t) ==
    /\ pc[t] = "ew_test"
    /\ mutex = t
    /\ IF waiting_writers > 0
         THEN /\ write_cv' \in Notify(write_cv)
              /\ read_cv' = read_cv
              /\ waiting_readers' = waiting_readers
         ELSE /\ read_cv' = NotifyAll(read_cv)
              /\ write_cv' = write_cv
              /\ waiting_readers' = 0
    /\ mutex' = Free
    /\ pc' = [pc EXCEPT ![t] = "idle"]
    /\ value' = [value EXCEPT ![t] = 0]
    /\ UNCHANGED <<active_readers, is_writing, waiting_writers,
                   shared_resource, history, database>>

\* if waiting_writers > 0: write_cv.notify() else: read_cv.notify_all();
\* the with block ends, end_write and write_resource return
EndWriteExit(t) ==
    /\ pc[t] = "ew_test"
    /\ mutex = t
    /\ IF waiting_writers > 0
         THEN /\ write_cv' \in Notify(write_cv)
              /\ read_cv' = read_cv
         ELSE /\ read_cv' = NotifyAll(read_cv)
              /\ write_cv' = write_cv
    /\ mutex' = Free
    /\ pc' = [pc EXCEPT ![t] = "idle"]
    /\ value' = [value EXCEPT ![t] = 0]
    /\ UNCHANGED <<lockState, shared_resource, history, database>>

\* ------------------------------------------------------ thread functions

\* the task's for loop is over: the thread function returns
Finish(t) ==
    /\ pc[t] = "idle"
    /\ pc' = [pc EXCEPT ![t] = "done"]
    /\ UNCHANGED <<mutex, read_cv, write_cv, lockState, shared_resource,
                   value, history, database>>

\* rw.read_resource(logger): every step of a reader thread inside it
read_resource(t) ==
    \/ StartReadEnter(t)
    \/ StartReadWait(t)
    \/ StartReadWake(t)
    \/ StartReadPass(t)
    \/ ReadLog(t)
    \/ EndReadEnter(t)
    \/ EndReadExit(t)

\* rw.write_resource(value, logger)
write_resource(t) ==
    \/ StartWriteEnter(t)
    \/ StartWriteWait(t)
    \/ StartWriteWake(t)
    \/ StartWritePass(t)
    \/ WriteAssign(t)
    \/ EndWriteEnter(t)
    \/ EndWriteExit(t)

Next ==
    \/ \E t \in Readers : read_resource(t)
    \/ \E t \in Writers : write_resource(t)
    \/ \E t \in Threads : Finish(t)

Spec == Init /\ [][Next]_vars

\* every step thread t can take
Run(t) ==
    \/ (t \in Readers /\ read_resource(t))
    \/ (t \in Writers /\ write_resource(t))
    \/ Finish(t)

\* fair scheduling: a thread that can keep running does run.  Taking the
\* mutex is a step like any other: a thread that finds it busy again and
\* again is not promised to get it.
FairSpec == Spec /\ \A t \in Threads : WF_vars(Run(t))

\* fair scheduling with a fair mutex: a thread that finds the mutex free
\* again and again does get it
FairLockSpec == FairSpec /\ \A t \in Readers : SF_vars(StartReadWake(t))

\* finite workloads: every task loops a finite number of times, so a thread
\* that keeps coming back to the head of its loop leaves it at some point
FiniteSpec == FairSpec /\ SF_vars(\E t \in Threads : Finish(t))

\* ------------------------------------------------- order among writers
\* The observer of Latch / Serve turned to pairs of writers: when writer t
\* enters start_write while writer w is waiting inside start_write, the
\* observer may latch watch = <<t, w>>; the pair is dropped when w returns
\* from start_write (StartWritePass).  While the pair is latched, w has been
\* inside start_write since before t's call began.

\* write_resource: WriteLock(self) calls start_write.
\* with self._mutex: self._waiting_writers += 1
StartWriteEnterObserved(t) ==
    /\ pc[t] = "idle"
    /\ mutex = Free
    /\ mutex' = t
    /\ waiting_writers' = waiting_writers + 1
    /\ pc' = [pc EXCEPT ![t] = "sw_test"]
    /\ watch' \in Latch(t)
    /\ UNCHANGED <<read_cv, write_cv, active_readers, waiting_readers,
                   is_writing, shared_resource, value, database>>

NextWriterOrder ==
    \/ \E t \in Readers : read_resource(t)
    \/ \E t \in Writers :
          \/ StartWriteEnterObserved(t)
          \/ StartWriteWait(t)
          \/ StartWriteWake(t)
          \/ StartWritePass(t)
          \/ WriteAssign(t)
          \/ EndWriteEnter(t)
          \/ EndWriteExit(t)
    \/ \E t \in Threads : Finish(t)

\* the program, with the order of the writers' calls observed
WriterOrderSpec == Init /\ [][NextWriterOrder]_vars

\* ------------------------------------------------ writers keep arriving
\* A schedule of the program in which writers never stop calling
\* write_resource and each writer's sleep before its return lasts until
\* another writer has arrived in start_write.  Every step is a step of the
\* program (Next): the schedule only chooses among the interleavings.
\* end_write always finds a writer waiting and notifies write_cv, never
\* read_cv, so no reader's wait() returns and StartReadWake has no step in
\* the schedule.

\* write_resource returns, end_write begins: scheduled once a writer waits
EndWriteEnterWhenQueued(t) ==
    /\ waiting_writers > 0
    /\ EndWriteEnter(t)

NextArrivingWriters ==
    \/ \E t \in Readers :
          \/ StartReadEnter(t)
          \/ StartReadWait(t)
          \/ StartReadPass(t)
          \/ ReadLog(t)
          \/ EndReadEnter(t)
          \/ EndReadExit(t)
    \/ \E t \in Writers :
          \/ StartWriteEnter(t)
          \/ StartWriteWait(t)
          \/ StartWriteWake(t)
          \/ StartWritePass(t)
          \/ WriteAssign(t)
          \/ EndWriteEnterWhenQueued(t)
          \/ EndWriteExit(t)
    \/ \E t \in Readers : Finish(t)

\* every step writer t can take in the schedule
ArrivingRun(t) ==
    \/ StartWriteEnter(t)
    \/ StartWriteWait(t)
    \/ StartWriteWake(t)
    \/ StartWritePass(t)
    \/ WriteAssign(t)
    \/ EndWriteEnterWhenQueued(t)
    \/ EndWriteExit(t)

\* the schedule, with readers that run when they can keep running and
\* writers that get the mutex when it is free again and again
ArrivingWritersSpec ==
    /\ Init
    /\ [][NextArrivingWriters]_vars
    /\ \A t \in Readers : WF_vars(read_resource(t) \/ Finish(t))
    /\ \A t \in Writers : SF_vars(ArrivingRun(t))

\* --------------------------------------------------- spurious wake-ups
\* A condition variable that may let wait() return though nobody notified:
\* the thread leaves the wait set by itself, and then takes the mutex and
\* goes back to the loop test as after a notify (StartReadWake,
\* StartWriteWake).

\* self._read_cv.wait() is about to return without a notify
SpuriousReadWake(t) ==
    /\ t \in read_cv
    /\ read_cv' = read_cv \ {t}
    /\ UNCHANGED <<mutex, write_cv, lockState, shared_resource, pc, value, history, database>>

\* self._write_cv.wait() is about to return without a notify
SpuriousWriteWake(t) ==
    /\ t \in write_cv
    /\ write_cv' = write_cv \ {t}
    /\ UNCHANGED <<mutex, read_cv, lockState, shared_resource, pc, value, history, database>>

NextSpurious ==
    \/ Next
    \/ \E t \in Readers : SpuriousReadWake(t)
    \/ \E t \in Writers : SpuriousWriteWake(t)

\* the program on condition variables with spurious wake-ups
SpuriousSpec == Init /\ [][NextSpurious]_vars

\* ------------------------------------------------- nested start_read
\* Callers that acquire twice: a thread that holds a read lock (it is
\* between start_read's return and end_read) calls start_read() again, and
\* end_read() for it when that call has returned.  The statements are those
\* of start_read and end_read; the thread's positions in the nested call
\* are "nr_test", "nr_wait", "nested" (both locks held) and "ner_test".
\* One level of nesting is modelled.  The condition variables are the ones
\* whose wait() may return without a notify (NextSpurious).

\* rw.start_read() by a thread that holds a read lock.
\* with self._mutex: self._waiting_readers += 1
NestedReadEnter(t) ==
    /\ pc[t] = "reading"
    /\ mutex = Free
    /\ mutex' = t
    /\ waiting_readers' = waiting_readers + 1
    /\ pc' = [pc EXCEPT ![t] = "nr_test"]
    /\ UNCHANGED <<read_cv, write_cv, active_readers, is_writing,
                   waiting_writers, shared_resource, value, history, database>>

\* while ...: self._read_cv.wait()
NestedReadWait(t) ==
    /\ pc[t] = "nr_test"
    /\ mutex = t
    /\ ReadMustWait
    /\ read_cv' = read_cv \cup {t}
    /\ mutex' = Free
    /\ pc' = [pc EXCEPT ![t] = "nr_wait"]
    /\ UNCHANGED <<write_cv, lockState, shared_resource, value, history, database>>

\* wait() returns
NestedReadWake(t) ==
    /\ pc[t] = "nr_wait"
    /\ t \notin read_cv
    /\ mutex = Free
    /\ mutex' = t
    /\ pc' = [pc EXCEPT ![t] = "nr_test"]
    /\ UNCHANGED <<read_cv, write_cv, lockState, shared_resource, value, history,
                   database>>

\* loop left: waiting_readers -= 1; active_readers += 1
NestedReadPass(t) ==
    /\ pc[t] = "nr_test"
    /\ mutex = t
    /\ ~ReadMustWait
    /\ waiting_readers' = waiting_readers - 1
    /\ active_readers' = active_readers + 1
    /\ mutex' = Free
    /\ pc' = [pc EXCEPT ![t] = "nested"]
    /\ UNCHANGED <<read_cv, write_cv, is_writing, waiting_writers,
                   shared_resource, value, history, database>>

\* rw.end_read() for the nested acquisition.
\* with self._mutex: self._active_readers -= 1
NestedEndReadEnter(t) ==
    /\ pc[t] = "nested"
    /\ mutex = Free
    /\ mutex' = t
    /\ active_readers' = active_readers - 1
    /\ pc' = [pc EXCEPT ![t] = "ner_test"]
    /\ UNCHANGED <<read_cv, write_cv, waiting_readers, is_writing,
                   waiting_writers, shared_resource, value, history, database>>

\* if self._active_readers == 0: self._write_cv.notify(); the thread is back
\* where it holds its first read lock
NestedEndReadExit(t) ==
    /\ pc[t] = "ner_test"
    /\ mutex = t
    /\ IF active_readers = 0
         THEN write_cv' \in Notify(write_cv)
         ELSE write_cv' = write_cv
    /\ mutex' = Free
    /\ pc' = [pc EXCEPT ![t] = "reading"]
    /\ UNCHANGED <<read_cv, lockState, shared_resource, value, history, database>>

NextNested ==
    \/ NextSpurious
    \/ \E t \in Readers :
          \/ NestedReadEnter(t)
          \/ NestedReadWait(t)
          \/ NestedReadWake(t)
          \/ NestedReadPass(t)
          \/ NestedEndReadEnter(t)
          \/ NestedEndReadExit(t)

\* the program with readers that acquire the read lock twice, on condition
\* variables with spurious wake-ups
NestedSpec == Init /\ [][NextNested]_vars

\* thread t holds a read lock and is inside a second start_read
InNestedStartRead(t) == pc[t] \in {"nr_test", "nr_wait"}

\* ----------------------------------------------------- double release
\* Callers that break the contract: a thread that holds no lock calls
\* end_read() or end_write() directly.  The call enters the `with
\* self._mutex:` block as any other; its second half is EndReadExit /
\* EndWriteExit.  At most MaxStray unmatched end_read calls are outstanding,
\* so that active_readers stays within -MaxStray .. NumReaders.

\* faulty variant: end_read refuses to go below zero
StrayEndRead_Validated(t) ==
    /\ pc[t] = "idle"
    /\ mutex = Free
    /\ active_readers > 0 - MaxStray
    /\ mutex' = t
    /\ active_readers' = IF active_readers > 0 THEN active_readers - 1 ELSE 0
    /\ pc' = [pc EXCEPT ![t] = "er_test"]
    /\ UNCHANGED <<read_cv, write_cv, waiting_readers, is_writing,
                   waiting_writers, shared_resource, value, history,
                   database>>

\* rw.end_read() with no start_read before it.
\* with self._mutex: self._active_readers -= 1
StrayEndRead(t) ==
    /\ pc[t] = "idle"
    /\ mutex = Free
    /\ active_readers > 0 - MaxStray
    /\ mutex' = t
    /\ active_readers' = active_readers - 1
    /\ pc' = [pc EXCEPT ![t] = "er_test"]
    /\ UNCHANGED <<read_cv, write_cv, waiting_readers, is_writing,
                   waiting_writers, shared_resource, value, history,
                   database>>

\* rw.end_write() with no start_write before it.
\* with self._mutex: self._is_writing = False
StrayEndWrite(t) ==
    /\ pc[t] = "idle"
    /\ mutex = Free
    /\ mutex' = t
    /\ is_writing' = FALSE
    /\ pc' = [pc EXCEPT ![t] = "ew_test"]
    /\ UNCHANGED <<read_cv, write_cv, active_readers, waiting_readers,
                   waiting_writers, shared_resource, value, history,
                   database>>

NextMisuse ==
    \/ Next
    \/ \E t \in Readers : StrayEndRead(t)
    \/ \E t \in Writers : StrayEndWrite(t)

\* the program with callers that release what they do not hold
MisuseSpec == Init /\ [][NextMisuse]_vars

\* ------------------------------------------------- a body that raises
\* logger.log is the one call in the two bodies that can raise.  The
\* exception leaves read_resource / write_resource with a traceback that
\* refers to the frame of the call, and the frame to its local `_`: the
\* guard stays alive, and __del__ runs only when the caller has dropped the
\* exception (its handler is over, or its thread function has ended).

\* read_resource: logger.log raises, the call exits to its caller
ReadRaise(t) ==
    /\ pc[t] = "reading"
    /\ pc' = [pc EXCEPT ![t] = "r_raised"]
    /\ UNCHANGED <<mutex, read_cv, write_cv, lockState, shared_resource,
                   value, history, database>>

\* the caller drops the exception: ReadLock.__del__ calls end_read.
\* with self._mutex: self._active_readers -= 1
ReadGuardDropped(t) ==
    /\ pc[t] = "r_raised"
    /\ mutex = Free
    /\ mutex' = t
    /\ active_readers' = active_readers - 1
    /\ pc' = [pc EXCEPT ![t] = "er_test"]
    /\ UNCHANGED <<read_cv, write_cv, waiting_readers, is_writing,
                   waiting_writers, shared_resource, value, history,
                   database>>

\* write_resource: the assignment is done, logger.log raises, the call exits
WriteRaise(t) ==
    /\ pc[t] = "written"
    /\ pc' = [pc EXCEPT ![t] = "w_raised"]
    /\ UNCHANGED <<mutex, read_cv, write_cv, lockState, shared_resource,
                   value, history, database>>

\* the caller drops the exception: WriteLock.__del__ calls end_write.
\* with self._mutex: self._is_writing = False
WriteGuardDropped(t) ==
    /\ pc[t] = "w_raised"
    /\ mutex = Free
    /\ mutex' = t
    /\ is_writing' = FALSE
    /\ pc' = [pc EXCEPT ![t] = "ew_test"]
    /\ UNCHANGED <<read_cv, write_cv, active_readers, waiting_readers,
                   waiting_writers, shared_resource, value, history,
                   database>>

NextRaising ==
    \/ Next
    \/ \E t \in Readers : ReadRaise(t) \/ ReadGuardDropped(t)
    \/ \E t \in Writers : WriteRaise(t) \/ WriteGuardDropped(t)

\* the program with loggers that may raise
RaisingSpec == Init /\ [][NextRaising]_vars

\* thread t is not inside read_resource / write_resource: it has not called,
\* or its last call has exited, by returning or by raising
InCaller(t) == pc[t] \in {"idle", "done", "r_raised", "w_raised"}

\* ------------------------------------------- SharedDatabase (the example)
\* Writer threads call database.add_record(record), reader threads call
\* database.get_record_count() and database.get_record(index).  Each method
\* calls write_resource / read_resource first -- a whole call, which takes
\* the lock and gives it back -- and touches self.records after that call
\* has returned.  db[t] says where thread t is in a method:
\*   "none"                     in no method
\*   "add_record"               len(self.records) evaluated, call not begun
\*   "add_record_locked"        inside write_resource, or back from it
\*   "get_record", "get_record_count"  inside read_resource, or back from it
\* (inside or back: pc[t] is "idle" again when the call has returned).

\* add_record: the argument len(self.records) of write_resource is evaluated
AddRecordCall(t) ==
    /\ pc[t] = "idle"
    /\ db[t] = "none"
    /\ records < MaxRecords
    /\ value' = [value EXCEPT ![t] = records]
    /\ db' = [db EXCEPT ![t] = "add_record"]
    /\ UNCHANGED <<mutex, read_cv, write_cv, lockState, shared_resource, pc,
                   history, records>>

\* add_record: write_resource(...) begins, WriteLock(self) calls start_write.
\* with self._mutex: self._waiting_writers += 1
AddRecordStartWrite(t) ==
    /\ pc[t] = "idle"
    /\ db[t] = "add_record"
    /\ mutex = Free
    /\ mutex' = t
    /\ waiting_writers' = waiting_writers + 1
    /\ pc' = [pc EXCEPT ![t] = "sw_test"]
    /\ db' = [db EXCEPT ![t] = "add_record_locked"]
    /\ UNCHANGED <<read_cv, write_cv, active_readers, waiting_readers,
                   is_writing, shared_resource, value, history, records>>

\* write_resource: self._shared_resource = value, the value being the
\* length that add_record passed
AddRecordAssign(t) ==
    /\ pc[t] = "writing"
    /\ shared_resource' = value[t]
    /\ pc' = [pc EXCEPT ![t] = "written"]
    /\ UNCHANGED <<mutex, read_cv, write_cv, lockState, value, history, database>>

\* add_record: write_resource has returned; self.records.append(record)
AddRecordAppend(t) ==
    /\ pc[t] = "idle"
    /\ db[t] = "add_record_locked"
    /\ records' = records + 1
    /\ db' = [db EXCEPT ![t] = "none"]
    /\ UNCHANGED <<mutex, read_cv, write_cv, lockState, shared_resource, pc,
                   value, history>>

\* get_record_count / get_record: read_resource(...) begins, ReadLock(self)
\* calls start_read.  with self._mutex: self._waiting_readers += 1
GetRecordStartRead(t) ==
    /\ pc[t] = "idle"
    /\ db[t] = "none"
    /\ mutex = Free
    /\ mutex' = t
    /\ waiting_readers' = waiting_readers + 1
    /\ pc' = [pc EXCEPT ![t] = "sr_test"]
    /\ watch' \in Latch(t)
    /\ \E method \in {"get_record", "get_record_count"} :
           db' = [db EXCEPT ![t] = method]
    /\ UNCHANGED <<read_cv, write_cv, active_readers, is_writing,
                   waiting_writers, shared_resource, value, records>>

\* get_record_count / get_record: read_resource has returned;
\* len(self.records), and self.records[index] in get_record, are read
GetRecordRead(t) ==
    /\ pc[t] = "idle"
    /\ db[t] \in {"get_record", "get_record_count"}
    /\ db' = [db EXCEPT ![t] = "none"]
    /\ UNCHANGED <<mutex, read_cv, write_cv, lockState, shared_resource, pc,
                   value, history, records>>

\* the task's loop is over, between two database calls
DatabaseFinish(t) ==
    /\ db[t] = "none"
    /\ Finish(t)

NextDatabase ==
    \/ \E t \in Writers :
          \/ AddRecordCall(t)
          \/ AddRecordStartWrite(t)
          \/ StartWriteWait(t)
          \/ StartWriteWake(t)
          \/ StartWritePass(t)
          \/ AddRecordAssign(t)
          \/ EndWriteEnter(t)
          \/ EndWriteExit(t)
          \/ AddRecordAppend(t)
    \/ \E t \in Readers :
          \/ GetRecordStartRead(t)
          \/ StartReadWait(t)
          \/ StartReadWake(t)
          \/ StartReadPass(t)
          \/ ReadLog(t)
          \/ EndReadEnter(t)
          \/ EndReadExit(t)
          \/ GetRecordRead(t)
    \/ \E t \in Threads : DatabaseFinish(t)

\* advanced_example: the threads work on a SharedDatabase
DatabaseSpec == Init /\ [][NextDatabase]_vars

\* thread t appends to self.records
Appends(t) == db[t] = "add_record_locked" /\ db'[t] = "none"

\* thread t reads self.records in get_record / get_record_count
ReadsRecords(t) == db[t] \in {"get_record", "get_record_count"} /\ db'[t] = "none"

\* ----------------------------------------------------------- shorthands
Idle(t) == pc[t] \in {"idle", "done"}
HoldsRead(t) == pc[t] \in {"reading", "logged"}
HoldsWrite(t) == pc[t] \in {"writing", "written"}
BlockedToRead(t) == pc[t] \in {"sr_test", "sr_wait"}
ReturnsFromStartRead(t) == pc[t] = "sr_test" /\ pc'[t] = "reading"
ReturnsFromEndWrite(t) == pc[t] = "ew_test" /\ pc'[t] = "idle"
ReturnsFromEndRead(t) == pc[t] = "er_test" /\ pc'[t] = "idle"
ReturnsFromStartWrite(t) == pc[t] = "sw_test" /\ pc'[t] = "writing"

\* thread t is parked in a wait(): it runs again only after a notify
Parked(t) == t \in read_cv \cup write_cv

\* thread t has been notified and its wait() is about to return
Notified(t) == pc[t] \in {"sr_wait", "sw_wait"} /\ ~Parked(t)

\* thread t takes a step
Steps(t) == pc'[t] # pc[t]

\* thread t holds the mutex in the step: it has it, or takes it
HoldsMutex(t) == mutex = t \/ mutex' = t

\* thread t is inside the `with self._mutex:` block of start_read, end_read,
\* start_write or end_write
InCore(t) == pc[t] \in {"sr_test", "er_test", "sw_test", "ew_test"}

\* the step of t is a step of start_read, end_read, start_write or end_write
\* under the mutex: it enters or leaves a `with self._mutex:` block, or
\* stays in it
CoreStep(t) == Steps(t) /\ HoldsMutex(t) /\ (InCore(t) \/ InCore(t)')

\* the step is a step of t's start_read(): the call begins, waits, wakes up
\* or returns
StartReadStep(t) ==
    /\ Steps(t)
    /\ pc[t] \in {"idle", "sr_test", "sr_wait"}
    /\ pc'[t] \in {"sr_test", "sr_wait", "reading"}

\* the step is a step of t's end_read()
EndReadStep(t) ==
    /\ Steps(t)
    /\ pc[t] \in {"logged", "er_test"}
    /\ pc'[t] \in {"er_test", "idle"}

\* the step is a step of t's start_write()
StartWriteStep(t) ==
    /\ Steps(t)
    /\ pc[t] \in {"idle", "sw_test", "sw_wait"}
    /\ pc'[t] \in {"sw_test", "sw_wait", "writing"}

\* the step is a step of t's end_write()
EndWriteStep(t) ==
    /\ Steps(t)
    /\ pc[t] \in {"written", "ew_test"}
    /\ pc'[t] \in {"ew_test", "idle"}

\* ---------------------------------------------------------------- claims

\* C1: whenever the mutex is not held, is_writing implies active_readers = 0.
C1_ReaderWriterExclusion ==
    mutex = Free => (is_writing => active_readers = 0)

\* a writer holds the lock while a reader is blocked behind it
C1_Witness ==
    /\ mutex = Free
    /\ is_writing
    /\ waiting_readers > 0
    /\ \E r \in Readers : r \in read_cv

\* C2: at most one thread is between the return of its start_write and its
\* call of end_write.
C2_WriterExclusivity ==
    Cardinality({w \in Writers : HoldsWrite(w)}) <= 1

\* one writer holds the lock and another is parked in start_write
C2_Witness ==
    \E w1, w2 \in Writers : HoldsWrite(w1) /\ w2 \in write_cv

\* C3: a reader leaves start_read's wait (waiting_readers - 1, active_readers
\* + 1) only from a state with is_writing false and waiting_writers = 0, and
\* active_readers never grows while a writer is counted in waiting_writers.
C3_WriterPreference ==
    [][ /\ \A r \in Readers :
             ReturnsFromStartRead(r) =>
                 /\ ~is_writing
                 /\ waiting_writers = 0
                 /\ waiting_readers' = waiting_readers - 1
                 /\ active_readers' = active_readers + 1
        /\ active_readers' > active_readers =>
               (waiting_writers = 0 /\ \E r \in Readers : ReturnsFromStartRead(r))
      ]_vars

\* the lock is held by a reader, no writer is writing, and a second reader
\* is parked only because a writer is waiting
C3_Witness ==
    /\ ~is_writing
    /\ waiting_writers > 0
    /\ \E r1, r2 \in Readers : HoldsRead(r1) /\ r2 \in read_cv

\* C4: a reader that entered start_read while a writer was waiting in
\* start_write has not returned from start_read as long as that writer has
\* not returned from start_write.
C4_WriterBeforeLaterReader ==
    watch # NoWatch => (BlockedToRead(watch[1]) /\ WaitingToWrite(watch[2]))

\* the writer, found waiting by a reader that is now parked behind it, holds
\* the mutex and is about to return from start_write first
C4_Witness ==
    /\ watch # NoWatch
    /\ watch[1] \in read_cv
    /\ pc[watch[2]] = "sw_test"
    /\ ~WriteMustWait

C6_WritersNotStarved ==
    (waiting_writers > 0) ~> is_writing

\* a writer is parked behind an active reader while another reader has
\* arrived and is parked behind the writer
C6_Witness ==
    /\ active_readers > 0
    /\ \E w \in Writers : w \in write_cv
    /\ \E r \in Readers : r \in read_cv

\* C7: with no writer inside a call, no reader is parked and no reader inside
\* start_read has to wait: readers never wait for each other.
C7_ReadersShare ==
    (\A w \in Writers : Idle(w)) =>
        /\ read_cv = {}
        /\ \A r \in Readers : pc[r] = "sr_test" => ~ReadMustWait

\* no writer has ever called (shared_resource still has its initial value)
\* and two readers hold the read lock together
C7_Witness ==
    /\ \A w \in Writers : pc[w] = "idle"
    /\ shared_resource = 0
    /\ active_readers > 1
    /\ Cardinality({r \in Readers : HoldsRead(r)}) > 1

\* C8: when every thread is between calls (all its acquire/release pairs are
\* complete), the four counters are back at their initial values.
C8_Quiescence ==
    (\A t \in Threads : Idle(t)) =>
        /\ active_readers = 0
        /\ is_writing = FALSE
        /\ waiting_readers = 0
        /\ waiting_writers = 0

\* every thread has finished its loop, and writes have taken place
C8_Witness ==
    /\ \A t \in Threads : pc[t] = "done"
    /\ shared_resource # 0

\* C9: with finite workloads and fair scheduling every thread finishes.
C9_Termination ==
    <>(\A t \in Threads : pc[t] = "done")

\* every thread function has returned and the lock is at rest
C9_Witness ==
    /\ \A t \in Threads : pc[t] = "done"
    /\ mutex = Free
    /\ read_cv = {} /\ write_cv = {}
    /\ shared_resource \in Values

\* C10: when write_resource returns, shared_resource is the value it was
\* given and is_writing is false; if no other thread is inside a call at that
\* moment, the three counters are 0.  (A call made while no other thread is
\* active is the case where the others are idle throughout.)
C10_WriteResourceStores ==
    [][ \A w \in Writers :
            ReturnsFromEndWrite(w) =>
                /\ shared_resource' = value[w]
                /\ is_writing' = FALSE
                /\ (\A t \in Threads \ {w} : Idle(t)) =>
                       /\ active_readers' = 0
                       /\ waiting_readers' = 0
                       /\ waiting_writers' = 0
      ]_vars

\* write_resource(42) has returned on an instance where nobody else is active
C10_Witness ==
    /\ \A t \in Threads : pc[t] = "idle"
    /\ shared_resource = 42
    /\ is_writing = FALSE
    /\ active_readers = 0 /\ waiting_readers = 0 /\ waiting_writers = 0

\* C11: no step of a reader thread changes shared_resource, and when
\* read_resource returns with no other thread inside a call, active_readers
\* and waiting_readers are 0.
C11_ReadResourceReleases ==
    [][ \A r \in Readers :
            /\ pc'[r] # pc[r] => shared_resource' = shared_resource
            /\ ReturnsFromEndRead(r) =>
                   ((\A t \in Threads \ {r} : Idle(t)) =>
                        /\ active_readers' = 0
                        /\ waiting_readers' = 0)
      ]_vars

\* a reader that read the value -1 is inside end_read, about to return, and
\* no other thread is inside a call
C11_Witness ==
    /\ \E r \in Readers :
           /\ pc[r] = "er_test"
           /\ \A t \in Threads \ {r} : Idle(t)
    /\ shared_resource = 0 - 1

\* C12: when every call of read_resource / write_resource has exited to its
\* caller, by returning or by raising, the lock is released: the Lock State
\* is what it is after normal returns.
C12_ScopedRelease ==
    (\A t \in Threads : InCaller(t)) =>
        /\ active_readers = 0
        /\ is_writing = FALSE
        /\ waiting_readers = 0
        /\ waiting_writers = 0

\* C13 as stated: every change of one of the five fields, shared_resource
\* included, is made by a step of start_read, end_read, start_write or
\* end_write whose thread holds the mutex.
C13_AllFieldsUnderMutex ==
    [][ (lockState' # lockState \/ shared_resource' # shared_resource) =>
            \E t \in Threads : CoreStep(t) ]_vars

\* C13, amended: the four counters and flags are read and changed only by
\* steps of start_read, end_read, start_write and end_write whose thread
\* holds the mutex; shared_resource is read by read_resource and assigned by
\* write_resource without the mutex, by a thread that holds the read lock,
\* respectively the write lock.
C13_MutexDiscipline ==
    [][ /\ lockState' # lockState => \E t \in Threads : CoreStep(t)
        /\ \A t \in Threads : (InCore(t) /\ Steps(t)) => mutex = t
        /\ \A r \in Readers :
               (pc[r] = "reading" /\ Steps(r)) =>
                   (~HoldsMutex(r) /\ active_readers > 0 /\ ~is_writing)
        /\ shared_resource' # shared_resource =>
               \E w \in Writers :
                   /\ pc[w] = "writing" /\ pc'[w] = "written"
                   /\ ~HoldsMutex(w)
                   /\ is_writing
                   /\ active_readers = 0
      ]_vars

\* a writer has assigned 42 to shared_resource and still holds the write
\* lock, while a reader holds the mutex
C13_Witness ==
    /\ \E w \in Writers : pc[w] = "written" /\ value[w] = 42
    /\ shared_resource = 42
    /\ mutex \in Readers

\* C14: shared_resource changes only in the assignment step of a writer; the
\* thread that takes that step is the one thread between start_write and
\* end_write, with is_writing true and no reader counted; a thread that reads
\* shared_resource is between start_read and end_read and counted in
\* active_readers, and no writer holds the write lock.
C14_PayloadAccess ==
    [][ /\ shared_resource' # shared_resource =>
               \E w \in Writers : pc[w] = "writing" /\ Steps(w)
        /\ \A w \in Writers :
               (pc[w] = "writing" /\ Steps(w)) =>
                   /\ is_writing
                   /\ {x \in Writers : HoldsWrite(x)} = {w}
                   /\ \A r \in Readers : ~HoldsRead(r)
        /\ \A r \in Readers :
               (pc[r] = "reading" /\ Steps(r)) =>
                   /\ active_readers = Cardinality({x \in Readers : HoldsRead(x)})
                   /\ ~is_writing
                   /\ \A w \in Writers : ~HoldsWrite(w)
      ]_vars

\* a reader is about to read the 42 that a writer stored, while another
\* writer is parked in start_write
C14_Witness ==
    /\ \E r \in Readers : pc[r] = "reading"
    /\ shared_resource = 42
    /\ write_cv # {}

\* C15: when every end_read / end_write follows its caller's acquire,
\* active_readers, waiting_readers and waiting_writers are never negative.
C15_CountersNonNegative ==
    /\ active_readers >= 0
    /\ waiting_readers >= 0
    /\ waiting_writers >= 0

\* the last active reader is inside end_read, its decrement done, and
\* active_readers is back at 0 while a reader and a writer are waiting
C15_Witness ==
    /\ \E r \in Readers : pc[r] = "er_test"
    /\ active_readers = 0
    /\ waiting_readers > 0
    /\ waiting_writers > 0

\* C16: whenever the mutex is not held, active_readers is the number of
\* threads between the return of start_read and their end_read, is_writing
\* is true exactly when one thread is between the return of start_write and
\* its end_write, and waiting_readers / waiting_writers are the numbers of
\* threads blocked inside start_read / start_write.
C16_CountersMatchThreads ==
    mutex = Free =>
        /\ active_readers = Cardinality({r \in Readers : HoldsRead(r)})
        /\ is_writing <=> Cardinality({w \in Writers : HoldsWrite(w)}) = 1
        /\ waiting_readers = Cardinality({r \in Readers : BlockedToRead(r)})
        /\ waiting_writers = Cardinality({w \in Writers : WaitingToWrite(w)})

\* nobody holds the mutex, a writer has written and still holds the write
\* lock, and a reader and another writer are blocked behind it
C16_Witness ==
    /\ mutex = Free
    /\ \E w \in Writers : pc[w] = "written"
    /\ \E w \in Writers : pc[w] = "sw_wait"
    /\ \E r \in Readers : pc[r] = "sr_wait"
    /\ waiting_readers > 0 /\ waiting_writers > 0

\* C17: with wake-ups that no notify caused, a thread that is back at its
\* loop test while its wait predicate holds waits again, a thread returns
\* from start_read / start_write only when its predicate is false, and in
\* every reachable state no reader holds the lock together with a writer,
\* at most one writer holds it, and is_writing implies active_readers = 0
\* whenever the mutex is free.
C17_SpuriousWakeupsHarmless ==
    /\ [](/\ mutex = Free => (is_writing => active_readers = 0)
          /\ Cardinality({w \in Writers : HoldsWrite(w)}) <= 1
          /\ \A r \in Readers, w \in Writers : ~(HoldsRead(r) /\ HoldsWrite(w)))
    /\ [][ /\ \A r \in Readers :
                 /\ (pc[r] = "sr_test" /\ Steps(r) /\ ReadMustWait) =>
                        (pc'[r] = "sr_wait" /\ r \in read_cv')
                 /\ ReturnsFromStartRead(r) => (~is_writing /\ waiting_writers = 0)
            /\ \A w \in Writers :
                 /\ (pc[w] = "sw_test" /\ Steps(w) /\ WriteMustWait) =>
                        (pc'[w] = "sw_wait" /\ w \in write_cv')
                 /\ (pc[w] = "sw_test" /\ pc'[w] = "writing") =>
                        (~is_writing /\ active_readers = 0)
          ]_vars

\* no write has completed yet, so no notify_all has been issued: a reader
\* has left read_cv.wait() by a spurious wake-up while the first writer
\* still holds the write lock
C17_Witness ==
    /\ shared_resource = 0
    /\ is_writing
    /\ \A w \in Writers : pc[w] # "ew_test"
    /\ \E r \in Readers : pc[r] = "sr_wait" /\ r \notin read_cv

\* C18: an end_read called by a thread that holds no read lock is carried
\* out like any other: it decrements active_readers, which is then below the
\* number of readers that hold the lock, and it returns; an end_write called
\* by a thread that holds no write lock sets is_writing to false whoever
\* holds the write lock, and returns.
C18_DoubleReleaseCorrupts ==
    /\ [][ /\ \A r \in Readers :
                 (pc[r] = "idle" /\ pc'[r] = "er_test") =>
                     /\ active_readers' = active_readers - 1
                     /\ active_readers' < Cardinality({x \in Readers : HoldsRead(x)})
            /\ \A w \in Writers :
                 (pc[w] = "idle" /\ pc'[w] = "ew_test") =>
                     /\ is_writing' = FALSE
                     /\ \A x \in Writers : HoldsWrite(x)' = HoldsWrite(x)
          ]_vars
    /\ [](\A t \in Threads :
              /\ pc[t] = "er_test" => ENABLED EndReadExit(t)
              /\ pc[t] = "ew_test" => ENABLED EndWriteExit(t))

\* after an unmatched end_read a reader and a writer hold the lock together
\* while the counters say otherwise: active_readers is 0
C18_Witness ==
    /\ \E r \in Readers, w \in Writers : HoldsRead(r) /\ HoldsWrite(w)
    /\ active_readers = 0
    /\ is_writing

\* C19: the first state has the three counters at 0, is_writing false and
\* shared_resource 0; and a start_read or start_write that entered while
\* the Lock State had these values (so that it counts only the caller as
\* waiting) goes through its loop test without waiting.
C19_InitialState ==
    /\ active_readers = 0
    /\ waiting_readers = 0
    /\ is_writing = FALSE
    /\ waiting_writers = 0
    /\ shared_resource = 0
    /\ [][ /\ \A r \in Readers :
                 (/\ pc[r] = "sr_test" /\ Steps(r)
                  /\ active_readers = 0 /\ waiting_readers = 1
                  /\ ~is_writing /\ waiting_writers = 0)
                     => pc'[r] = "reading"
            /\ \A w \in Writers :
                 (/\ pc[w] = "sw_test" /\ Steps(w)
                  /\ active_readers = 0 /\ waiting_readers = 0
                  /\ ~is_writing /\ waiting_writers = 1)
                     => pc'[w] = "writing"
          ]_vars

\* the first call on the new instance: a writer is at start_write's loop
\* test and nothing else has happened
C19_Witness ==
    /\ \E w \in Writers :
           /\ pc[w] = "sw_test"
           /\ \A t \in Threads \ {w} : pc[t] = "idle"
    /\ active_readers = 0 /\ waiting_readers = 0
    /\ ~is_writing /\ waiting_writers = 1
    /\ shared_resource = 0

\* C20: a thread appends to records only while it holds the write lock, and
\* reads records (len, indexing) only while it holds a read lock.
C20_RecordsProtected ==
    [][ /\ \A w \in Writers : Appends(w) => (HoldsWrite(w) /\ is_writing)
        /\ \A r \in Readers : ReadsRecords(r) => (HoldsRead(r) /\ active_readers > 0)
      ]_vars

\* C21: a thread that enters start_write adds 1 to waiting_writers; it
\* returns from start_write only from a state with is_writing false and
\* active_readers = 0, in one step in which it holds the mutex, takes 1 from
\* waiting_writers and sets is_writing; and is_writing is set by no other
\* step.
C21_WriterEntryGate ==
    [][ /\ \A w \in Writers :
               /\ (pc[w] = "idle" /\ pc'[w] = "sw_test") =>
                      waiting_writers' = waiting_writers + 1
               /\ ReturnsFromStartWrite(w) =>
                      /\ mutex = w
                      /\ ~is_writing
                      /\ active_readers = 0
                      /\ waiting_writers' = waiting_writers - 1
                      /\ is_writing'
        /\ (~is_writing /\ is_writing') =>
               \E w \in Writers : ReturnsFromStartWrite(w)
      ]_vars

\* a writer that had to wait is back at the loop test with the lock free,
\* about to return from start_write, while a second writer is still parked
C21_Witness ==
    /\ \E w \in Writers : pc[w] = "sw_test" /\ mutex = w
    /\ ~WriteMustWait
    /\ waiting_writers = 2
    /\ write_cv # {}

\* C22: end_write sets is_writing to false; when it finds waiting_writers > 0
\* it takes one writer out of write_cv (if one is parked there) and leaves
\* read_cv alone, otherwise it empties read_cv and leaves write_cv alone.
\* From then on waiting_writers stays above 0 until a writer returns from
\* start_write, and no reader returns from start_read while it is above 0:
\* no blocked reader becomes active before a writer has acquired the lock.
C22_EndWriteWakeUp ==
    [][ /\ \A w \in Writers :
               /\ (pc[w] = "written" /\ pc'[w] = "ew_test") => is_writing' = FALSE
               /\ (ReturnsFromEndWrite(w) /\ waiting_writers > 0) =>
                      /\ read_cv' = read_cv
                      /\ write_cv' \subseteq write_cv
                      /\ write_cv # {} =>
                             Cardinality(write_cv') = Cardinality(write_cv) - 1
               /\ (ReturnsFromEndWrite(w) /\ waiting_writers = 0) =>
                      /\ read_cv' = {}
                      /\ write_cv' = write_cv
        /\ (waiting_writers > 0 /\ waiting_writers' < waiting_writers) =>
               \E w \in Writers : ReturnsFromStartWrite(w)
        /\ \A r \in Readers :
               (BlockedToRead(r) /\ HoldsRead(r)') => waiting_writers = 0
      ]_vars

\* a writer is inside end_write with is_writing cleared and finds another
\* writer waiting, parked, and a reader parked as well
C22_Witness ==
    /\ \E w \in Writers : pc[w] = "ew_test" /\ mutex = w
    /\ ~is_writing
    /\ waiting_writers > 0
    /\ write_cv # {}
    /\ read_cv # {}

\* C23: end_read takes exactly 1 from active_readers; when that leaves 0 it
\* takes one writer out of write_cv (if one is parked there), when it leaves
\* more than 0 it takes nobody out; it never takes a reader out of read_cv.
C23_EndReadWakeUp ==
    [][ \A r \in Readers :
            /\ (HoldsRead(r) /\ pc'[r] = "er_test") =>
                   active_readers' = active_readers - 1
            /\ ReturnsFromEndRead(r) =>
                   /\ read_cv' = read_cv
                   /\ active_readers' = active_readers
                   /\ active_readers = 0 =>
                          /\ write_cv' \subseteq write_cv
                          /\ write_cv # {} =>
                                 Cardinality(write_cv') = Cardinality(write_cv) - 1
                   /\ active_readers # 0 => write_cv' = write_cv
      ]_vars

\* a reader is inside end_read, another reader still holds the lock, and a
\* writer is parked: this end_read wakes nobody
C23_Witness ==
    /\ \E r \in Readers : pc[r] = "er_test" /\ mutex = r
    /\ active_readers > 0
    /\ write_cv # {}

\* C24: writers are not served in the order of their calls.  Whenever the
\* observer follows a pair of writers <<w2, w1>>, w1 is still waiting inside
\* the start_write it was in when w2 called; and w2 may hold the write lock
\* in such a state (C24_Witness): it then holds it alone, with is_writing
\* set and w1 counted in waiting_writers.
C24_NoFifoAmongWriters ==
    (watch # NoWatch /\ watch[1] \in Writers) =>
        /\ watch[1] # watch[2]
        /\ WaitingToWrite(watch[2])
        /\ HoldsWrite(watch[1]) =>
               /\ is_writing
               /\ waiting_writers >= 1
               /\ {x \in Writers : HoldsWrite(x)} = {watch[1]}

\* writer w2 called start_write when w1 was already waiting in it, and w2
\* has returned and written while w1 is still parked
C24_Witness ==
    /\ watch # NoWatch
    /\ watch[1] \in Writers
    /\ pc[watch[1]] = "written"
    /\ watch[2] \in write_cv

C26_NoLostWakeUp ==
    /\ (/\ ~is_writing
         /\ active_readers = 0
         /\ \A t \in Threads : Idle(t) \/ Parked(t))
           => \A t \in Threads : ~Parked(t)
    /\ mutex = Free =>
           /\ ~ReadMustWait => read_cv = {}
           /\ (~WriteMustWait /\ write_cv # {}) =>
                  \E w \in Writers : Notified(w)

\* the last reader has left and notified one of two parked writers: the lock
\* is free, one writer is still parked, the other is about to take the mutex
C26_Witness ==
    /\ mutex = Free
    /\ ~WriteMustWait
    /\ write_cv # {}
    /\ \E w \in Writers : Notified(w)
    /\ \A r \in Readers : Idle(r)

\* C27: no step taken while some thread is between its return from
\* start_read and its call of end_read changes shared_resource; and while a
\* thread is between its return from start_write and its call of end_write,
\* shared_resource is changed by that thread's assignment only.
C27_PayloadStableWhileHeld ==
    [][ /\ (\E r \in Readers : HoldsRead(r)) =>
               shared_resource' = shared_resource
        /\ \A w \in Writers :
               (HoldsWrite(w) /\ shared_resource' # shared_resource) =>
                   (pc[w] = "writing" /\ pc'[w] = "written")
      ]_vars

\* a reader has logged the value -1 and still holds the read lock while a
\* writer stands at start_write's loop test
C27_Witness ==
    /\ \E r \in Readers : pc[r] = "logged"
    /\ shared_resource = 0 - 1
    /\ \E w \in Writers : pc[w] = "sw_test"

\* C28: readers can be starved.  The schedule in which writers keep arriving
\* consists of steps of the program, is fair to every thread (a thread that
\* can keep running does run), and in it writers arrive in start_write
\* again and again and every writer that holds the write lock calls
\* end_write; yet from the first state in which a reader has to wait,
\* readers have to wait for ever: no reader returns from start_read.
C28_ReadersCanStarve ==
    /\ [][Next]_vars
    /\ \A t \in Threads : WF_vars(Run(t))
    /\ []<><<\E w \in Writers : StartWriteEnter(w)>>_vars
    /\ \A w \in Writers : HoldsWrite(w) ~> (pc[w] = "ew_test")
    /\ [][ ReadMustWait =>
               /\ ReadMustWait'
               /\ \A r \in Readers : ~ReturnsFromStartRead(r) ]_vars

\* a reader is parked in start_read, and writes have been completed since
\* it was: the payload has changed and the next writer holds the lock
C28_Witness ==
    /\ \E r \in Readers : r \in read_cv
    /\ shared_resource # 0
    /\ \E w \in Writers : pc[w] = "written"
    /\ waiting_writers > 0

\* C29: the read lock is not re-entrant.  From a state in which a thread
\* that holds a read lock is inside a second start_read while a writer is
\* waiting in start_write, that thread stays inside its start_read and
\* waiting_writers stays above 0 for ever: the thread never returns, no
\* writer returns from start_write, and no reader returns from start_read.
C29_ReadLockNotReentrant ==
    [][ \A t \in Readers :
            (InNestedStartRead(t) /\ waiting_writers > 0) =>
                /\ InNestedStartRead(t)'
                /\ waiting_writers' > 0
                /\ active_readers' > 0
                /\ \A w \in Writers : ~ReturnsFromStartWrite(w)
                /\ \A r \in Readers : ~ReturnsFromStartRead(r)
      ]_vars

\* the deadlock: a reader that holds a read lock is parked in its second
\* start_read, a writer is parked in start_write, nobody holds the mutex and
\* every other thread is parked or between calls
C29_Witness ==
    /\ mutex = Free
    /\ \E t \in Readers : pc[t] = "nr_wait" /\ t \in read_cv
    /\ \E w \in Writers : w \in write_cv
    /\ \A t \in Threads : Idle(t) \/ Parked(t)

\* C30: frame conditions.  Every step of start_read() and of end_read()
\* leaves is_writing, waiting_writers and shared_resource unchanged; every
\* step of start_write() and of end_write() leaves active_readers,
\* waiting_readers and shared_resource unchanged; and a step of start_read()
\* or start_write() after which the call has not returned changes nothing
\* but the caller's waiting counter, by +1 when the call begins and not at
\* all afterwards.
C30_FrameConditions ==
    [][ /\ \A t \in Readers :
              /\ (StartReadStep(t) \/ EndReadStep(t)) =>
                     UNCHANGED <<is_writing, waiting_writers, shared_resource>>
              /\ (StartReadStep(t) /\ pc'[t] # "reading") =>
                     /\ UNCHANGED active_readers
                     /\ waiting_readers' =
                           IF pc[t] = "idle" THEN waiting_readers + 1
                                             ELSE waiting_readers
        /\ \A t \in Writers :
              /\ (StartWriteStep(t) \/ EndWriteStep(t)) =>
                     UNCHANGED <<active_readers, waiting_readers, shared_resource>>
              /\ (StartWriteStep(t) /\ pc'[t] # "writing") =>
                     /\ UNCHANGED is_writing
                     /\ waiting_writers' =
                           IF pc[t] = "idle" THEN waiting_writers + 1
                                             ELSE waiting_writers
      ]_vars

\* a write has finished (the payload is no longer its initial 0) while
\* readers are still blocked in start_read and counted in waiting_readers,
\* and a writer is blocked in start_write and counted in waiting_writers
C30_Witness ==
    /\ shared_resource # 0
    /\ \E r \in Readers : pc[r] = "sr_wait"
    /\ \E w \in Writers : pc[w] = "sw_wait"
    /\ waiting_readers = Cardinality({r \in Readers : pc[r] \in {"sr_test", "sr_wait"}})
    /\ waiting_writers = Cardinality({w \in Writers : pc[w] \in {"sw_test", "sw_wait"}})
    /\ waiting_readers > 0

=============================================================================
